---- MODULE Spec2Model ----
(***************************************************************************)
(* Model of app/model/calendar.py: the Calendar / Day / Event / Reminder   *)
(* classes of CalendarAppChallenge.                                        *)
(*                                                                         *)
(* A datetime.time is its minute of the day (time(h, m) = 60h + m), a      *)
(* datetime.date is a day number, an event id is a positive number (the    *)
(* n-th id handed out by generate_unique_id) and None is 0.  A Python dict *)
(* is kept in its insertion order: Calendar.events and Calendar.days are   *)
(* sequences of entries, and Day.slots is the sequence of its 96 values in *)
(* the order Day._init_slots inserts the keys: slots[i] is the value under *)
(* the key SlotKeys[i].                                                    *)
(***************************************************************************)
EXTENDS Integers, Sequences, FiniteSets, TLC

VARIABLES days, events, nextId, last, calls

vars == <<days, events, nextId, last, calls>>

---------------------------------------------------------------------------
(* Bounds of the model.                                                    *)

\* ids generate_unique_id hands out in one run
MaxIds == 2
\* reminders one event holds at a time
MaxReminders == 3

---------------------------------------------------------------------------
(* Values.                                                                 *)

None == 0

\* datetime.now().date()
Today == 1

EMAIL == "email"
SYSTEM == "system"

NoError == "none"
EventNotFound == "EventNotFound"
ReminderNotFound == "ReminderNotFound"
SlotNotAvailable == "SlotNotAvailable"
DateLowerThanToday == "DateLowerThanToday"

time(hour, minute) == hour * 60 + minute

\* what callers pass in
Dates == {Today - 1, Today, Today + 1}
\* <<start_at, end_at>>: the slot at 00:00, the slots at 00:00 and 00:15, the
\* slot at 00:15 (from a start between two slots), no slot (end before start)
Ranges == {<<time(0, 0), time(0, 15)>>, <<time(0, 0), time(0, 30)>>,
           <<time(0, 10), time(0, 30)>>, <<time(0, 30), time(0, 15)>>}
\* <<title, description>>
Texts == {<<"t1", "d1">>}
Ids == 1 .. MaxIds
ReminderInputs == {<<100, EMAIL>>, <<200, SYSTEM>>}
Indexes == -1 .. MaxReminders

---------------------------------------------------------------------------
(* Reminder and Event.                                                     *)

Reminder(date_time, type) == [date_time |-> date_time, type |-> type]

Event(title, description, date_, start_at, end_at, id) ==
    [title |-> title, description |-> description, date_ |-> date_,
     start_at |-> start_at, end_at |-> end_at, id |-> id, reminders |-> <<>>]

Event_add_reminder(event, date_time, type_) ==
    [event EXCEPT !.reminders = Append(@, Reminder(date_time, type_))]

\* del seq[i] for a 0-based index i of seq
DelIndex(seq, i) ==
    [k \in 1 .. Len(seq) - 1 |-> IF k <= i THEN seq[k] ELSE seq[k + 1]]

\* Event_delete_reminder that removes the last reminder, whatever the index
Event_delete_reminder_pops(event, reminder_index) ==
    IF 0 <= reminder_index /\ reminder_index < Len(event.reminders)
    THEN [event |-> [event EXCEPT
                        !.reminders = SubSeq(@, 1, Len(@) - 1)],
          raised |-> NoError]
    ELSE [event |-> event, raised |-> ReminderNotFound]

\* Event_delete_reminder that counts a negative index from the end, as a
\* Python list does
Event_delete_reminder_from_end(event, reminder_index) ==
    IF -Len(event.reminders) <= reminder_index
       /\ reminder_index < Len(event.reminders)
    THEN [event |-> [event EXCEPT
                        !.reminders =
                            DelIndex(@, IF reminder_index < 0
                                        THEN Len(@) + reminder_index
                                        ELSE reminder_index)],
          raised |-> NoError]
    ELSE [event |-> event, raised |-> ReminderNotFound]

\* Event.delete_reminder: the event after the call and the error raised
Event_delete_reminder(event, reminder_index) ==
    IF 0 <= reminder_index /\ reminder_index < Len(event.reminders)
    THEN [event |-> [event EXCEPT !.reminders = DelIndex(@, reminder_index)],
          raised |-> NoError]
    ELSE [event |-> event, raised |-> ReminderNotFound]

---------------------------------------------------------------------------
(* Day.                                                                    *)

\* the keys of Day.slots in the order Day._init_slots inserts them
SlotKeys == [i \in 1 .. 24 * 4 |-> time((i - 1) \div 4, 15 * ((i - 1) % 4))]

init_slots == [i \in DOMAIN SlotKeys |-> None]

Day(date_) == [date_ |-> date_, slots |-> init_slots]

\* InRange with the end of the range included (slot <= end_at)
InRange_end_included(i, start_at, end_at) ==
    start_at <= SlotKeys[i] /\ SlotKeys[i] <= end_at

\* start_at <= slot < end_at for the i-th key
InRange(i, start_at, end_at) == start_at <= SlotKeys[i] /\ SlotKeys[i] < end_at

\* Day_add_event that takes a slot holding event_id itself for a free one
Day_add_event_skips_own(slots, event_id, start_at, end_at) ==
    LET taken == {i \in DOMAIN slots :
                     /\ InRange(i, start_at, end_at)
                     /\ slots[i] # None
                     /\ slots[i] # event_id}
        stop == IF taken = {} THEN Len(slots) + 1
                ELSE CHOOSE i \in taken : \A j \in taken : i <= j
    IN  [slots |-> [i \in DOMAIN slots |->
                       IF i < stop /\ InRange(i, start_at, end_at)
                       THEN event_id ELSE slots[i]],
         raised |-> IF taken = {} THEN NoError ELSE SlotNotAvailable]

\* Day_add_event that undoes its writes before it raises
Day_add_event_rolls_back(slots, event_id, start_at, end_at) ==
    LET taken == {i \in DOMAIN slots :
                     InRange(i, start_at, end_at) /\ slots[i] # None}
    IN  [slots |-> [i \in DOMAIN slots |->
                       IF taken = {} /\ InRange(i, start_at, end_at)
                       THEN event_id ELSE slots[i]],
         raised |-> IF taken = {} THEN NoError ELSE SlotNotAvailable]

\* Day_add_event that writes a slot before it tests it
Day_add_event_overwrites(slots, event_id, start_at, end_at) ==
    LET taken == {i \in DOMAIN slots :
                     InRange(i, start_at, end_at) /\ slots[i] # None}
        stop == IF taken = {} THEN Len(slots) + 1
                ELSE CHOOSE i \in taken : \A j \in taken : i <= j
    IN  [slots |-> [i \in DOMAIN slots |->
                       IF i <= stop /\ InRange(i, start_at, end_at)
                       THEN event_id ELSE slots[i]],
         raised |-> IF taken = {} THEN NoError ELSE SlotNotAvailable]

\* Day.add_event: the loop runs over the keys in order, writes event_id into
\* each slot of the range and raises at the first one that is taken, so the
\* slots of the range before that one (`stop`) keep the id it wrote
Day_add_event(slots, event_id, start_at, end_at) ==
    LET taken == {i \in DOMAIN slots :
                     InRange(i, start_at, end_at) /\ slots[i] # None}
        stop == IF taken = {} THEN Len(slots) + 1
                ELSE CHOOSE i \in taken : \A j \in taken : i <= j
    IN  [slots |-> [i \in DOMAIN slots |->
                       IF i < stop /\ InRange(i, start_at, end_at)
                       THEN event_id ELSE slots[i]],
         raised |-> IF taken = {} THEN NoError ELSE SlotNotAvailable]

\* Day_delete_event that stops at the first slot it clears
Day_delete_event_first_only(slots, event_id) ==
    [slots |-> [i \in DOMAIN slots |->
                   IF slots[i] = event_id
                      /\ \A j \in 1 .. i - 1 : slots[j] # event_id
                   THEN None ELSE slots[i]],
     raised |-> IF \E i \in DOMAIN slots : slots[i] = event_id
                THEN NoError ELSE EventNotFound]

Day_delete_event(slots, event_id) ==
    [slots |-> [i \in DOMAIN slots |->
                   IF slots[i] = event_id THEN None ELSE slots[i]],
     raised |-> IF \E i \in DOMAIN slots : slots[i] = event_id
                THEN NoError ELSE EventNotFound]

\* Day_update_event that puts the old slots back when the booking fails
Day_update_event_restores(slots, event_id, start_at, end_at) ==
    LET deleted == Day_delete_event(slots, event_id)
        booked == Day_add_event(deleted.slots, event_id, start_at, end_at)
    IN  IF deleted.raised # NoError
        THEN [slots |-> slots, raised |-> deleted.raised]
        ELSE IF booked.raised # NoError
             THEN [slots |-> slots, raised |-> booked.raised]
             ELSE booked

\* Day.update_event: delete_event, which raises when no slot holds the id
\* and has then changed nothing, and add_event on the slots it left
Day_update_event(slots, event_id, start_at, end_at) ==
    LET deleted == Day_delete_event(slots, event_id)
    IN  IF deleted.raised # NoError
        THEN [slots |-> slots, raised |-> deleted.raised]
        ELSE Day_add_event(deleted.slots, event_id, start_at, end_at)

---------------------------------------------------------------------------
(* Dict helpers: a dict is a sequence of entries in insertion order.       *)

HasDay(ds, date_) == \E i \in DOMAIN ds : ds[i].date_ = date_
DayIndex(ds, date_) == CHOOSE i \in DOMAIN ds : ds[i].date_ = date_
SlotsOf(ds, date_) == ds[DayIndex(ds, date_)].slots

HasEvent(es, event_id) == \E i \in DOMAIN es : es[i].id = event_id
EventIndex(es, event_id) == CHOOSE i \in DOMAIN es : es[i].id = event_id
EventOf(es, event_id) == es[EventIndex(es, event_id)]

\* del d[key]
DictDel(es, event_id) == DelIndex(es, EventIndex(es, event_id) - 1)

\* d[key] = value: in place when the key is there, at the end otherwise
DictSet(es, event) ==
    IF HasEvent(es, event.id)
    THEN [es EXCEPT ![EventIndex(es, event.id)] = event]
    ELSE Append(es, event)

\* if date_ not in self.days: self.days[date_] = Day(date_)
EnsureDay(ds, date_) == IF HasDay(ds, date_) THEN ds ELSE Append(ds, Day(date_))

SetSlots(ds, date_, slots) == [ds EXCEPT ![DayIndex(ds, date_)].slots = slots]

\* event_id in day.slots.values()
InDay(day, event_id) == \E i \in DOMAIN day.slots : day.slots[i] = event_id

---------------------------------------------------------------------------
(* Calendar: each operation maps the dicts before the call to the dicts    *)
(* after it, the error it raised and the value it returned.                *)

\* app.services.util.generate_unique_id: the id after n earlier ones
generate_unique_id(n) == n + 1

Outcome(ds, es, raised, ret) ==
    [days |-> ds, events |-> es, raised |-> raised, ret |-> ret]

\* the first Day, in dict order, that holds event_id in some slot (0: none)
FirstDayWith(ds, event_id) ==
    IF \E i \in DOMAIN ds : InDay(ds[i], event_id)
    THEN CHOOSE i \in DOMAIN ds :
             /\ InDay(ds[i], event_id)
             /\ \A j \in 1 .. i - 1 : ~InDay(ds[j], event_id)
    ELSE 0

\* Calendar_add_event that stores the event before it books the slots
Calendar_add_event_stores_first(ds, es, n, title, description, date_, start_at, end_at) ==
    IF date_ < Today
    THEN Outcome(ds, es, DateLowerThanToday, None)
    ELSE LET ds1 == EnsureDay(ds, date_)
             event == Event(title, description, date_, start_at, end_at,
                            generate_unique_id(n))
             booked == Day_add_event(SlotsOf(ds1, date_), event.id,
                                     start_at, end_at)
             ds2 == SetSlots(ds1, date_, booked.slots)
         IN  IF booked.raised # NoError
             THEN Outcome(ds2, DictSet(es, event), booked.raised, None)
             ELSE Outcome(ds2, DictSet(es, event), NoError, event.id)

\* Calendar_add_event that also refuses today's date (date_ <= today)
Calendar_add_event_refuses_today(ds, es, n, title, description, date_, start_at, end_at) ==
    IF date_ <= Today
    THEN Outcome(ds, es, DateLowerThanToday, None)
    ELSE LET ds1 == EnsureDay(ds, date_)
             event == Event(title, description, date_, start_at, end_at,
                            generate_unique_id(n))
             booked == Day_add_event(SlotsOf(ds1, date_), event.id,
                                     start_at, end_at)
             ds2 == SetSlots(ds1, date_, booked.slots)
         IN  IF booked.raised # NoError
             THEN Outcome(ds2, es, booked.raised, None)
             ELSE Outcome(ds2, DictSet(es, event), NoError, event.id)

Calendar_add_event(ds, es, n, title, description, date_, start_at, end_at) ==
    IF date_ < Today
    THEN Outcome(ds, es, DateLowerThanToday, None)
    ELSE LET ds1 == EnsureDay(ds, date_)
             event == Event(title, description, date_, start_at, end_at,
                            generate_unique_id(n))
             booked == Day_add_event(SlotsOf(ds1, date_), event.id,
                                     start_at, end_at)
             ds2 == SetSlots(ds1, date_, booked.slots)
         IN  IF booked.raised # NoError
             THEN Outcome(ds2, es, booked.raised, None)
             ELSE Outcome(ds2, DictSet(es, event), NoError, event.id)

Calendar_add_reminder(ds, es, event_id, date_time, type_) ==
    IF ~HasEvent(es, event_id)
    THEN Outcome(ds, es, EventNotFound, None)
    ELSE Outcome(ds,
                 DictSet(es, Event_add_reminder(EventOf(es, event_id),
                                                date_time, type_)),
                 NoError, None)

\* FreeSlots without the test of the value: every key
FreeSlots_every_key(slots) == [k \in DOMAIN slots |-> SlotKeys[k]]

\* [slot for slot, event_id in slots.items() if event_id is None]
FreeSlots(slots) ==
    LET free == SelectSeq([i \in DOMAIN slots |-> i],
                          LAMBDA i : slots[i] = None)
    IN  [k \in DOMAIN free |-> SlotKeys[free[k]]]

Calendar_find_available_slots(ds, date_) ==
    IF ~HasDay(ds, date_)
    THEN [i \in 1 .. 24 * 4 |-> time((i - 1) \div 4, 15 * ((i - 1) % 4))]
    ELSE FreeSlots(SlotsOf(ds, date_))

\* Calendar_delete_event that scans the Days before it looks the id up
Calendar_delete_event_scans_first(ds, es, event_id) ==
    LET i == FirstDayWith(ds, event_id)
        ds1 == IF i = 0 THEN ds
               ELSE [ds EXCEPT
                        ![i].slots = Day_delete_event(@, event_id).slots]
    IN  IF ~HasEvent(es, event_id)
        THEN Outcome(ds1, es, EventNotFound, None)
        ELSE Outcome(ds1, DictDel(es, event_id), NoError, None)

Calendar_delete_event(ds, es, event_id) ==
    IF ~HasEvent(es, event_id)
    THEN Outcome(ds, es, EventNotFound, None)
    ELSE LET es1 == DictDel(es, event_id)
             i == FirstDayWith(ds, event_id)
         IN  IF i = 0
             THEN Outcome(ds, es1, NoError, None)
             ELSE LET cleared == Day_delete_event(ds[i].slots, event_id)
                  IN  Outcome([ds EXCEPT ![i].slots = cleared.slots], es1,
                              cleared.raised, None)

\* Calendar_update_event that drops the registry entry but not the slots
\* of the old event (del self.events[event_id] in place of delete_event)
Calendar_update_event_keeps_slots(ds, es, event_id, title, description, date_, start_at, end_at) ==
    IF ~HasEvent(es, event_id)
    THEN Outcome(ds, es, EventNotFound, None)
    ELSE LET new_event == Event(title, description, date_, start_at, end_at,
                                event_id)
             es1 == DictSet(DictDel(es, event_id), new_event)
             ds1 == EnsureDay(ds, date_)
             booked == Day_add_event(SlotsOf(ds1, date_), event_id,
                                     start_at, end_at)
         IN  Outcome(SetSlots(ds1, date_, booked.slots), es1,
                     booked.raised, None)

\* Calendar_update_event that stores the new event after the booking, so
\* that a failed booking leaves the id without an entry
Calendar_update_event_registers_last(ds, es, event_id, title, description, date_, start_at, end_at) ==
    IF ~HasEvent(es, event_id)
    THEN Outcome(ds, es, EventNotFound, None)
    ELSE LET deleted == Calendar_delete_event(ds, es, event_id)
             new_event == Event(title, description, date_, start_at, end_at,
                                event_id)
             ds1 == EnsureDay(deleted.days, date_)
             booked == Day_add_event(SlotsOf(ds1, date_), event_id,
                                     start_at, end_at)
         IN  Outcome(SetSlots(ds1, date_, booked.slots),
                     IF booked.raised = NoError
                     THEN DictSet(deleted.events, new_event)
                     ELSE deleted.events,
                     booked.raised, None)

\* Calendar_update_event that hands the reminders of the old event over
\* to the new one
Calendar_update_event_keeps_reminders(ds, es, event_id, title, description, date_, start_at, end_at) ==
    IF ~HasEvent(es, event_id)
    THEN Outcome(ds, es, EventNotFound, None)
    ELSE LET deleted == Calendar_delete_event(ds, es, event_id)
             new_event == [Event(title, description, date_, start_at,
                                 end_at, event_id)
                           EXCEPT !.reminders = EventOf(es, event_id).reminders]
             es1 == DictSet(deleted.events, new_event)
             ds1 == EnsureDay(deleted.days, date_)
             booked == Day_add_event(SlotsOf(ds1, date_), event_id,
                                     start_at, end_at)
         IN  Outcome(SetSlots(ds1, date_, booked.slots), es1,
                     booked.raised, None)

Calendar_update_event(ds, es, event_id, title, description, date_, start_at, end_at) ==
    IF ~HasEvent(es, event_id)
    THEN Outcome(ds, es, EventNotFound, None)
    ELSE LET deleted == Calendar_delete_event(ds, es, event_id)
             new_event == Event(title, description, date_, start_at, end_at,
                                event_id)
             es1 == DictSet(deleted.events, new_event)
             ds1 == EnsureDay(deleted.days, date_)
             booked == Day_add_event(SlotsOf(ds1, date_), event_id,
                                     start_at, end_at)
         IN  Outcome(SetSlots(ds1, date_, booked.slots), es1,
                     booked.raised, None)

Calendar_delete_reminder(ds, es, event_id, reminder_index) ==
    IF ~HasEvent(es, event_id)
    THEN Outcome(ds, es, EventNotFound, None)
    ELSE LET r == Event_delete_reminder(EventOf(es, event_id), reminder_index)
         IN  Outcome(ds, DictSet(es, r.event), r.raised, None)

Calendar_list_reminders(ds, es, event_id) ==
    IF ~HasEvent(es, event_id)
    THEN Outcome(ds, es, EventNotFound, None)
    ELSE Outcome(ds, es, NoError, EventOf(es, event_id).reminders)

\* Calendar_find_events that keeps the first event of a date
Calendar_find_events_keeps_first(es, start_at, end_at) ==
    LET hits == SelectSeq(es, LAMBDA event :
                             start_at <= event.date_ /\ event.date_ <= end_at)
        firsts == SelectSeq([i \in DOMAIN hits |-> i],
                            LAMBDA i : \A j \in 1 .. i - 1 :
                                          hits[j].date_ # hits[i].date_)
    IN  [k \in DOMAIN firsts |->
            [date_ |-> hits[firsts[k]].date_,
             events |-> <<hits[firsts[k]]>>]]

\* Calendar_find_events with the end date left out (event.date_ < end_at)
Calendar_find_events_end_excluded(es, start_at, end_at) ==
    LET hits == SelectSeq(es, LAMBDA event :
                             start_at <= event.date_ /\ event.date_ < end_at)
        firsts == SelectSeq([i \in DOMAIN hits |-> i],
                            LAMBDA i : \A j \in 1 .. i - 1 :
                                          hits[j].date_ # hits[i].date_)
        last_of(d) == hits[CHOOSE i \in DOMAIN hits :
                               /\ hits[i].date_ = d
                               /\ \A j \in i + 1 .. Len(hits) :
                                      hits[j].date_ # d]
    IN  [k \in DOMAIN firsts |->
            [date_ |-> hits[firsts[k]].date_,
             events |-> <<last_of(hits[firsts[k]].date_)>>]]

\* {event.date_: [event] for event in self.events.values()
\*  if start_at <= event.date_ <= end_at}: the dict comprehension inserts a
\* key at the first event of its date (`firsts`) and overwrites its value
\* with every later event of that date (`last_of`)
Calendar_find_events(es, start_at, end_at) ==
    LET hits == SelectSeq(es, LAMBDA event :
                             start_at <= event.date_ /\ event.date_ <= end_at)
        firsts == SelectSeq([i \in DOMAIN hits |-> i],
                            LAMBDA i : \A j \in 1 .. i - 1 :
                                          hits[j].date_ # hits[i].date_)
        last_of(d) == hits[CHOOSE i \in DOMAIN hits :
                               /\ hits[i].date_ = d
                               /\ \A j \in i + 1 .. Len(hits) :
                                      hits[j].date_ # d]
    IN  [k \in DOMAIN firsts |->
            [date_ |-> hits[firsts[k]].date_,
             events |-> <<last_of(hits[firsts[k]].date_)>>]]

---------------------------------------------------------------------------
(* The state machine: a caller makes one Calendar call per step.  `last`   *)
(* records the call: the operation, the event id it named (for add_event   *)
(* the id it generated, for find_available_slots the date), the error it   *)
(* raised and the value it returned: the id of add_event in ret, the list  *)
(* of find_available_slots in slots, that of list_reminders in reminders,  *)
(* the dict of find_events in found.  For a call made on a Day, before is  *)
(* the slots of the Day when the call was made.  `calls` is used where two *)
(* callers run at once, and is empty elsewhere.                            *)

Init ==
    /\ days = <<>>
    /\ events = <<>>
    /\ nextId = 0
    /\ last = [op |-> "init", arg |-> None, raised |-> NoError, ret |-> None,
               slots |-> <<>>, reminders |-> <<>>, found |-> <<>>,
               before |-> <<>>]
    /\ calls = <<>>

Apply(op, arg, out) ==
    /\ days' = out.days
    /\ events' = out.events
    /\ last' = [op |-> op, arg |-> arg, raised |-> out.raised,
                ret |-> IF op = "add_event" THEN out.ret ELSE None,
                slots |-> IF op = "find_available_slots" THEN out.ret
                          ELSE <<>>,
                reminders |-> IF op = "list_reminders" /\ out.raised = NoError
                              THEN out.ret ELSE <<>>,
                found |-> IF op = "find_events" THEN out.ret ELSE <<>>,
                before |-> <<>>]
    /\ UNCHANGED calls

add_event(title, description, date_, start_at, end_at) ==
    IF date_ < Today
    THEN /\ \E out \in {Calendar_add_event(days, events, nextId, title,
                            description, date_, start_at, end_at)} :
                Apply("add_event", None, out)
         /\ UNCHANGED nextId
    ELSE /\ nextId < MaxIds
         /\ \E out \in {Calendar_add_event(days, events, nextId, title,
                            description, date_, start_at, end_at)} :
                Apply("add_event", generate_unique_id(nextId), out)
         /\ nextId' = nextId + 1

add_reminder(event_id, date_time, type_) ==
    /\ HasEvent(events, event_id) =>
           Len(EventOf(events, event_id).reminders) < MaxReminders
    /\ \E out \in {Calendar_add_reminder(days, events, event_id, date_time,
                                         type_)} :
           Apply("add_reminder", event_id, out)
    /\ UNCHANGED nextId

find_available_slots(date_) ==
    /\ \E ret \in {Calendar_find_available_slots(days, date_)} :
           Apply("find_available_slots", date_,
                 Outcome(days, events, NoError, ret))
    /\ UNCHANGED nextId

update_event(event_id, title, description, date_, start_at, end_at) ==
    /\ \E out \in {Calendar_update_event(days, events, event_id, title,
                       description, date_, start_at, end_at)} :
           Apply("update_event", event_id, out)
    /\ UNCHANGED nextId

delete_event(event_id) ==
    /\ \E out \in {Calendar_delete_event(days, events, event_id)} :
           Apply("delete_event", event_id, out)
    /\ UNCHANGED nextId

delete_reminder(event_id, reminder_index) ==
    /\ \E out \in {Calendar_delete_reminder(days, events, event_id,
                                            reminder_index)} :
           Apply("delete_reminder", event_id, out)
    /\ UNCHANGED nextId

list_reminders(event_id) ==
    /\ \E out \in {Calendar_list_reminders(days, events, event_id)} :
           Apply("list_reminders", event_id, out)
    /\ UNCHANGED nextId

find_events(start_at, end_at) ==
    /\ \E ret \in {Calendar_find_events(events, start_at, end_at)} :
           Apply("find_events", None, Outcome(days, events, NoError, ret))
    /\ UNCHANGED nextId

(* Booking: the calls that create, move and remove events. *)

AddEvent ==
    \E text \in Texts, date_ \in Dates, range \in Ranges :
        add_event(text[1], text[2], date_, range[1], range[2])

UpdateEvent ==
    \E event_id \in Ids, text \in Texts, date_ \in Dates, range \in Ranges :
        update_event(event_id, text[1], text[2], date_, range[1], range[2])

DeleteEvent == \E event_id \in Ids : delete_event(event_id)

FindAvailableSlots == \E date_ \in Dates : find_available_slots(date_)

Next ==
    \/ AddEvent
    \/ UpdateEvent
    \/ DeleteEvent
    \/ FindAvailableSlots

Spec == Init /\ [][Next]_vars

(* Reminders: every call of the Calendar, the events on one date. *)

RemDates == {Today}
RemRanges == {<<time(0, 0), time(0, 15)>>, <<time(0, 0), time(0, 30)>>,
              <<time(0, 10), time(0, 30)>>}

RemAddEvent ==
    \E text \in Texts, date_ \in RemDates, range \in RemRanges :
        add_event(text[1], text[2], date_, range[1], range[2])

RemUpdateEvent ==
    \E event_id \in Ids, text \in Texts, date_ \in RemDates,
       range \in RemRanges :
        update_event(event_id, text[1], text[2], date_, range[1], range[2])

RemFindAvailableSlots == \E date_ \in RemDates : find_available_slots(date_)

AddReminder ==
    \E event_id \in Ids, reminder \in ReminderInputs :
        add_reminder(event_id, reminder[1], reminder[2])

DeleteReminder ==
    \E event_id \in Ids, reminder_index \in Indexes :
        delete_reminder(event_id, reminder_index)

ListReminders == \E event_id \in Ids : list_reminders(event_id)

NextRem ==
    \/ RemAddEvent
    \/ RemUpdateEvent
    \/ DeleteEvent
    \/ RemFindAvailableSlots
    \/ AddReminder
    \/ DeleteReminder
    \/ ListReminders

SpecRem == Init /\ [][NextRem]_vars

(* Searching: events on the three dates, and find_events over them. *)

FindEvents ==
    \E start_at \in Dates, end_at \in Dates : find_events(start_at, end_at)

NextFind ==
    \/ AddEvent
    \/ UpdateEvent
    \/ DeleteEvent
    \/ FindEvents

SpecFind == Init /\ [][NextFind]_vars

(* Updating: events on two dates, update_event with a new title and        *)
(* description as well.  Here last.before is the slots of the new date     *)
(* when update_event was called.                                           *)

UpdTexts == Texts \cup {<<"t2", "d2">>}
UpdDates == {Today, Today + 1}

UpdAddEvent ==
    \E text \in Texts, date_ \in UpdDates, range \in RemRanges :
        add_event(text[1], text[2], date_, range[1], range[2])

UpdUpdateEvent ==
    \E event_id \in Ids, text \in UpdTexts, date_ \in UpdDates,
       range \in RemRanges :
        \E out \in {Calendar_update_event(days, events, event_id, text[1],
                         text[2], date_, range[1], range[2])} :
            /\ days' = out.days
            /\ events' = out.events
            /\ last' = [op |-> "update_event", arg |-> event_id,
                        raised |-> out.raised, ret |-> None, slots |-> <<>>,
                        reminders |-> <<>>, found |-> <<>>,
                        before |-> IF HasDay(days, date_)
                                   THEN SlotsOf(days, date_) ELSE init_slots]
            /\ UNCHANGED <<nextId, calls>>

NextUpd ==
    \/ UpdAddEvent
    \/ UpdUpdateEvent
    \/ DeleteEvent

SpecUpd == Init /\ [][NextUpd]_vars

(* Reminders of an updated event: events on one date with reminders, and  *)
(* update_event.  Here last.before is the reminders the event had when     *)
(* update_event was called.                                                *)

CarryRanges == {<<time(0, 0), time(0, 15)>>, <<time(0, 10), time(0, 30)>>}

CarryAddEvent ==
    \E text \in Texts, date_ \in RemDates, range \in CarryRanges :
        add_event(text[1], text[2], date_, range[1], range[2])

CarryUpdateEvent ==
    \E event_id \in Ids, text \in Texts, date_ \in RemDates,
       range \in CarryRanges :
        \E out \in {Calendar_update_event(days, events, event_id, text[1],
                         text[2], date_, range[1], range[2])} :
            /\ days' = out.days
            /\ events' = out.events
            /\ last' = [op |-> "update_event", arg |-> event_id,
                        raised |-> out.raised, ret |-> None, slots |-> <<>>,
                        reminders |-> <<>>, found |-> <<>>,
                        before |-> IF HasEvent(events, event_id)
                                   THEN EventOf(events, event_id).reminders
                                   ELSE <<>>]
            /\ UNCHANGED <<nextId, calls>>

NextCarry ==
    \/ CarryAddEvent
    \/ CarryUpdateEvent
    \/ AddReminder

SpecCarry == Init /\ [][NextCarry]_vars

(* Lost slots: events on one date, with one id more than elsewhere, so     *)
(* that add_event goes on booking after a failed add_event has left its id *)
(* in a slot.                                                              *)

OrphanIds == 1 .. MaxIds + 1

OrphanAddEvent ==
    \E text \in Texts, date_ \in {Today - 1, Today}, range \in RemRanges :
        \E out \in {Calendar_add_event(days, events, nextId, text[1],
                         text[2], date_, range[1], range[2])} :
            IF date_ < Today
            THEN /\ Apply("add_event", None, out)
                 /\ UNCHANGED nextId
            ELSE /\ nextId < MaxIds + 1
                 /\ Apply("add_event", generate_unique_id(nextId), out)
                 /\ nextId' = nextId + 1

OrphanUpdateEvent ==
    \E event_id \in OrphanIds, text \in Texts, date_ \in RemDates,
       range \in RemRanges :
        update_event(event_id, text[1], text[2], date_, range[1], range[2])

OrphanDeleteEvent == \E event_id \in OrphanIds : delete_event(event_id)

NextOrphan ==
    \/ OrphanAddEvent
    \/ OrphanUpdateEvent
    \/ OrphanDeleteEvent
    \/ RemFindAvailableSlots

SpecOrphan == Init /\ [][NextOrphan]_vars

(* One Day: a caller holds a Day and calls its methods, with ids of its   *)
(* own and ranges over the first four slots.                               *)

DayTimes == {time(0, 0), time(0, 10), time(0, 30), time(0, 45), time(1, 0)}
DayRanges == DayTimes \X DayTimes

InitDay ==
    /\ days = <<Day(Today)>>
    /\ events = <<>>
    /\ nextId = 0
    /\ last = [op |-> "init", arg |-> None, raised |-> NoError, ret |-> None,
               slots |-> <<>>, reminders |-> <<>>, found |-> <<>>,
               before |-> <<>>]
    /\ calls = <<>>

\* out: the slots after the call and the error it raised
ApplyDay(op, event_id, out) ==
    /\ days' = [days EXCEPT ![1].slots = out.slots]
    /\ last' = [op |-> op, arg |-> event_id, raised |-> out.raised,
                ret |-> None, slots |-> <<>>, reminders |-> <<>>,
                found |-> <<>>, before |-> days[1].slots]
    /\ UNCHANGED <<events, nextId, calls>>

DayAddEvent ==
    \E event_id \in Ids, range \in DayRanges :
        \E out \in {Day_add_event(days[1].slots, event_id, range[1],
                                   range[2])} :
            ApplyDay("Day.add_event", event_id, out)

DayDeleteEvent ==
    \E event_id \in Ids :
        \E out \in {Day_delete_event(days[1].slots, event_id)} :
            ApplyDay("Day.delete_event", event_id, out)

DayUpdateEvent ==
    \E event_id \in Ids, range \in DayRanges :
        \E out \in {Day_update_event(days[1].slots, event_id, range[1],
                                      range[2])} :
            ApplyDay("Day.update_event", event_id, out)

NextDay ==
    \/ DayAddEvent
    \/ DayDeleteEvent
    \/ DayUpdateEvent

SpecDay == InitDay /\ [][NextDay]_vars

(* Two callers: each makes one add_event call on the same Calendar, and no  *)
(* lock is taken: a step of a caller is one access to what the callers     *)
(* share, the dict Calendar.days (its test at line 89, its store at line   *)
(* 90, its read at line 93), the ids (line 92), one slot of a Day (the     *)
(* test at line 62, the write at line 64) or the dict Calendar.events      *)
(* (line 94).  A Day is an object: calls.objs holds the slots of every Day *)
(* made so far and calls.at[k] is the one that days[k] is, so that a Day   *)
(* that line 90 has replaced in Calendar.days goes on being written by the *)
(* caller that read it at line 93, while days shows the Days the dict      *)
(* holds.  calls.call[t] is the call of caller t: where it stands (pc),    *)
(* its arguments, the id of its Event, its Day and the slot its loop is    *)
(* at.  With calls.atomic a caller that has entered add_event holds        *)
(* calls.lock until the call returns or raises, so that no step of the     *)
(* other caller falls within the call; without it the steps of the two     *)
(* callers interleave freely.                                              *)

Threads == {1, 2}

NoCall ==
    [pc |-> "idle", title |-> "", description |-> "", date_ |-> None,
     start_at |-> None, end_at |-> None, id |-> None, day |-> 0, slot |-> 0]

\* for slot in self.slots: if start_at <= slot < end_at: the first position
\* from `from` on whose key lies in the range (0: the loop is over)
NextInRange(from, start_at, end_at) ==
    IF \E i \in from .. Len(SlotKeys) : InRange(i, start_at, end_at)
    THEN CHOOSE i \in from .. Len(SlotKeys) :
             /\ InRange(i, start_at, end_at)
             /\ \A j \in from .. i - 1 : ~InRange(j, start_at, end_at)
    ELSE 0

\* SlotTaken without the test: no slot is ever found taken
SlotTaken_never(slots, i) == FALSE

\* if self.slots[slot] is not None
SlotTaken(slots, i) == slots[i] # None

\* self.days[date_] = Day(date_): a new value under a key the dict has (the
\* key keeps its place), or a new key at the end
PutDay(ds, date_) ==
    IF HasDay(ds, date_)
    THEN [ds EXCEPT ![DayIndex(ds, date_)] = Day(date_)]
    ELSE Append(ds, Day(date_))

\* the same store on calls.at: the Day under the key is now the object obj
PutAt(at, ds, date_, obj) ==
    IF HasDay(ds, date_)
    THEN [at EXCEPT ![DayIndex(ds, date_)] = obj]
    ELSE Append(at, obj)

\* Calendar.days as the objects show it: every Day the dict holds, with the
\* slots of its object
DaysOf(ds, objs, at) ==
    [k \in DOMAIN ds |-> [ds[k] EXCEPT !.slots = objs[at[k]]]]

InitRace ==
    /\ days = <<>>
    /\ events = <<>>
    /\ nextId = 0
    /\ last = [op |-> "init", arg |-> None, raised |-> NoError, ret |-> None,
               slots |-> <<>>, reminders |-> <<>>, found |-> <<>>,
               before |-> <<>>]
    /\ calls \in {[atomic |-> a, lock |-> 0,
                    call |-> [t \in Threads |-> NoCall],
                    objs |-> <<>>, at |-> <<>>] : a \in BOOLEAN}

MayStep(t) == calls.atomic => calls.lock \in {0, t}

\* caller t moves to pc, with its loop at slot; the lock is taken by a call
\* that goes on and given back by one that has returned or raised; objs and
\* at are the Day objects after the step
Goto(t, call, pc, slot, objs, at) ==
    calls' = [calls EXCEPT
                 !.call[t] = [call EXCEPT !.pc = pc, !.slot = slot],
                 !.lock = IF calls.atomic /\ pc \notin {"returned", "raised"}
                          THEN t ELSE 0,
                 !.objs = objs,
                 !.at = at]

\* if date_ < datetime.now().date(): date_lower_than_today_error()
\* if date_ not in self.days
RaceEnter(t) ==
    /\ calls.call[t].pc = "idle"
    /\ MayStep(t)
    /\ \E text \in Texts, date_ \in RemDates, range \in RemRanges :
           \E call \in {[NoCall EXCEPT !.title = text[1],
                                        !.description = text[2],
                                        !.date_ = date_,
                                        !.start_at = range[1],
                                        !.end_at = range[2]]} :
               Goto(t, call,
                    IF date_ < Today THEN "raised"
                    ELSE IF HasDay(days, date_) THEN "event" ELSE "day",
                    0, calls.objs, calls.at)
    /\ UNCHANGED <<days, events, nextId, last>>

\* self.days[date_] = Day(date_): whatever Day the dict holds for the date
\* by now is replaced
RaceDay(t) ==
    /\ calls.call[t].pc = "day"
    /\ MayStep(t)
    /\ \E call \in {calls.call[t]} :
           /\ days' = PutDay(days, call.date_)
           /\ Goto(t, call, "event", 0,
                   Append(calls.objs, Day(call.date_).slots),
                   PutAt(calls.at, days, call.date_, Len(calls.objs) + 1))
    /\ UNCHANGED <<events, nextId, last>>

\* event = Event(title, description, date_, start_at, end_at): its id
RaceEvent(t) ==
    /\ calls.call[t].pc = "event"
    /\ MayStep(t)
    /\ nextId' = nextId + 1
    /\ \E call \in {calls.call[t]} :
           Goto(t, [call EXCEPT !.id = generate_unique_id(nextId)],
                "book", 0, calls.objs, calls.at)
    /\ UNCHANGED <<days, events, last>>

\* self.days[date_].add_event(...): the Day the dict holds for the date is
\* read, and its loop starts
RaceBook(t) ==
    /\ calls.call[t].pc = "book"
    /\ MayStep(t)
    /\ \E call \in {calls.call[t]} :
           \E slot \in {NextInRange(1, call.start_at, call.end_at)} :
               Goto(t, [call EXCEPT
                           !.day = calls.at[DayIndex(days, call.date_)]],
                    IF slot = 0 THEN "store" ELSE "test", slot,
                    calls.objs, calls.at)
    /\ UNCHANGED <<days, events, nextId, last>>

\* if self.slots[slot] is not None: slot_not_available_error()
RaceTest(t) ==
    /\ calls.call[t].pc = "test"
    /\ MayStep(t)
    /\ \E call \in {calls.call[t]} :
           Goto(t, call,
                IF SlotTaken(calls.objs[call.day], call.slot)
                THEN "raised" ELSE "write",
                call.slot, calls.objs, calls.at)
    /\ UNCHANGED <<days, events, nextId, last>>

\* self.slots[slot] = event_id, and on to the next slot of the range
RaceWrite(t) ==
    /\ calls.call[t].pc = "write"
    /\ MayStep(t)
    /\ \E call \in {calls.call[t]} :
       \E objs \in {[calls.objs EXCEPT ![call.day][call.slot] = call.id]} :
           /\ days' = DaysOf(days, objs, calls.at)
           /\ \E slot \in {NextInRange(call.slot + 1, call.start_at,
                                        call.end_at)} :
                  Goto(t, call, IF slot = 0 THEN "store" ELSE "test", slot,
                       objs, calls.at)
    /\ UNCHANGED <<events, nextId, last>>

\* self.events[event.id] = event; return event.id
RaceStore(t) ==
    /\ calls.call[t].pc = "store"
    /\ MayStep(t)
    /\ \E call \in {calls.call[t]} :
           /\ events' = DictSet(events,
                                Event(call.title, call.description,
                                      call.date_, call.start_at,
                                      call.end_at, call.id))
           /\ Goto(t, call, "returned", 0, calls.objs, calls.at)
    /\ UNCHANGED <<days, nextId, last>>

Enter == \E t \in Threads : RaceEnter(t)
NewDay == \E t \in Threads : RaceDay(t)
NewEvent == \E t \in Threads : RaceEvent(t)
Book == \E t \in Threads : RaceBook(t)
Test == \E t \in Threads : RaceTest(t)
Write == \E t \in Threads : RaceWrite(t)
Store == \E t \in Threads : RaceStore(t)

NextRace ==
    \/ Enter
    \/ NewDay
    \/ NewEvent
    \/ Book
    \/ Test
    \/ Write
    \/ Store

SpecRace == InitRace /\ [][NextRace]_vars

---------------------------------------------------------------------------
(* Vocabulary of the properties.                                           *)

\* the keys of Calendar.events
Registered(es) == {es[i].id : i \in DOMAIN es}

\* the positions of the slots s with start_at <= s < end_at
RangeSlots(start_at, end_at) ==
    {i \in DOMAIN SlotKeys : start_at <= SlotKeys[i] /\ SlotKeys[i] < end_at}

\* the slots, as <<date, position>>, that hold event_id in the Days ds
HeldBy(ds, event_id) ==
    UNION {{<<ds[k].date_, i>> :
               i \in {j \in DOMAIN SlotKeys : ds[k].slots[j] = event_id}} :
           k \in DOMAIN ds}

\* the values of the slots of date_, all None when there is no such Day
ValuesOn(ds, date_) ==
    IF HasDay(ds, date_) THEN SlotsOf(ds, date_)
    ELSE [i \in DOMAIN SlotKeys |-> None]

\* the ids found in the slots of the Days ds
Booked(ds) ==
    {ds[k].slots[i] : k \in DOMAIN ds, i \in DOMAIN SlotKeys} \ {None}

\* C1: no two distinct registered events of the same date have ranges
\* [start_at, end_at) that share a slot.
C1_NoDoubleBooking ==
    \A i, j \in DOMAIN events :
        (i # j /\ events[i].date_ = events[j].date_) =>
            RangeSlots(events[i].start_at, events[i].end_at) \cap
            RangeSlots(events[j].start_at, events[j].end_at) = {}

\* C2: every event id stored in a slot of a Day is a key of Calendar.events.
C2_SlotIdsRegistered == Booked(days) \subseteq Registered(events)

\* C3: the slots that hold the id of a registered event are exactly the slots
\* of its range on the Day of its date.
C3_SlotsAreTheRange ==
    \A x \in DOMAIN events :
        HeldBy(days, events[x].id) =
            IF HasDay(days, events[x].date_)
            THEN {events[x].date_} \X
                 RangeSlots(events[x].start_at, events[x].end_at)
            ELSE {}

\* the elements of a sequence
Elements(seq) == {seq[k] : k \in DOMAIN seq}

\* every slot of the range is free on date_ (a date without a Day is free)
RangeFree(ds, date_, start_at, end_at) ==
    \A values \in {ValuesOn(ds, date_)} :
        \A i \in RangeSlots(start_at, end_at) : values[i] = None

\* the Days other than that of date_ are the same in ds1 and ds2
OtherDaysSame(ds1, ds2, date_) ==
    \A d \in Dates \ {date_} :
        /\ HasDay(ds2, d) = HasDay(ds1, d)
        /\ HasDay(ds1, d) => SlotsOf(ds2, d) = SlotsOf(ds1, d)

\* C4: add_event on a date not before today, with start < end and every slot
\* of the range free, succeeds, returns a fresh id that becomes a key of the
\* registry, writes that id into exactly the slots of the range on the Day
\* of the date, and leaves every other slot, every other Day and every other
\* registry entry as it was.
C4_AddEventBooksFreeRange ==
    \A text \in Texts, date_ \in Dates, range \in Ranges :
        (/\ date_ >= Today
         /\ range[1] < range[2]
         /\ RangeFree(days, date_, range[1], range[2])) =>
            \A out \in {Calendar_add_event(days, events, nextId, text[1],
                            text[2], date_, range[1], range[2])} :
                /\ out.raised = NoError
                /\ out.ret # None
                /\ out.ret \notin Registered(events) \cup Booked(days)
                /\ out.ret \in Registered(out.events)
                /\ HasDay(out.days, date_)
                /\ \A old \in {ValuesOn(days, date_)},
                      new \in {ValuesOn(out.days, date_)},
                      booked \in {RangeSlots(range[1], range[2])} :
                       \A i \in DOMAIN SlotKeys :
                           new[i] = IF i \in booked THEN out.ret ELSE old[i]
                /\ OtherDaysSame(days, out.days, date_)
                /\ Len(out.events) = Len(events) + 1
                /\ \A x \in DOMAIN events : out.events[x] = events[x]

\* C4 happens: the last call was an add_event that succeeded and booked a
\* slot on a Day where another registered event holds a slot
C4_Witness ==
    /\ last.op = "add_event"
    /\ last.raised = NoError
    /\ HasEvent(events, last.ret)
    /\ \E p \in HeldBy(days, last.ret) :
           \E x \in DOMAIN events :
               /\ events[x].id # last.ret
               /\ \E q \in HeldBy(days, events[x].id) : q[1] = p[1]

\* C5 as stated: add_event on a range that contains an occupied slot of the
\* date fails with SlotNotAvailable and leaves the registry unchanged.
C5_AnyDateOccupiedRaisesSlotNotAvailable ==
    \A text \in Texts, date_ \in Dates, range \in Ranges :
        ~RangeFree(days, date_, range[1], range[2]) =>
            \A out \in {Calendar_add_event(days, events, nextId, text[1],
                            text[2], date_, range[1], range[2])} :
                /\ out.raised = SlotNotAvailable
                /\ out.events = events

\* C5, amended: add_event on a date not before today and a range that
\* contains an occupied slot of that date fails with SlotNotAvailable and
\* leaves the registry unchanged.
C5_OccupiedRaisesSlotNotAvailable ==
    \A text \in Texts, date_ \in Dates, range \in Ranges :
        (date_ >= Today /\ ~RangeFree(days, date_, range[1], range[2])) =>
            \A out \in {Calendar_add_event(days, events, nextId, text[1],
                            text[2], date_, range[1], range[2])} :
                /\ out.raised = SlotNotAvailable
                /\ out.events = events

\* C5 happens: the last call was an add_event that raised SlotNotAvailable
\* after it wrote a slot, and the id it generated is no key of the registry
C5_Witness ==
    /\ last.op = "add_event"
    /\ last.raised = SlotNotAvailable
    /\ last.arg \in Booked(days)
    /\ last.arg \notin Registered(events)
    /\ events # <<>>

\* C6: the slots that hold one event id lie in at most one Day, and
\* delete_event on a registered event X succeeds, leaves no slot holding X
\* and no key X, and find_available_slots on X's date then returns every slot
\* X held.
C6_DeleteFreesTheSlots ==
    /\ \A id \in Booked(days) :
           Cardinality({p[1] : p \in HeldBy(days, id)}) <= 1
    /\ \A x \in DOMAIN events :
           \A out \in {Calendar_delete_event(days, events, events[x].id)} :
               /\ out.raised = NoError
               /\ HeldBy(out.days, events[x].id) = {}
               /\ events[x].id \notin Registered(out.events)
               /\ \A p \in HeldBy(days, events[x].id) :
                      /\ p[1] = events[x].date_
                      /\ SlotKeys[p[2]] \in
                             Elements(Calendar_find_available_slots(
                                          out.days, events[x].date_))

\* C6 happens: the last call was a delete_event that succeeded, no slot
\* holds the id it named, a Day is entirely free again and another Day
\* still holds a registered event
C6_Witness ==
    /\ last.op = "delete_event"
    /\ last.raised = NoError
    /\ last.arg \notin Registered(events) \cup Booked(days)
    /\ \E k \in DOMAIN days : days[k].slots = init_slots
    /\ \E x \in DOMAIN events : HeldBy(days, events[x].id) # {}

\* C7: find_available_slots(date) returns the 96 slots 00:00, 00:15, ...,
\* 23:45 in ascending order when the date has no Day, otherwise exactly the
\* slots of the Day whose value is None in ascending order, and changes
\* neither Calendar.days nor Calendar.events.
C7_FindAvailableSlots ==
    [][last'.op = "find_available_slots" =>
          /\ days' = days
          /\ events' = events
          /\ IF ~HasDay(days, last'.arg)
             THEN /\ Len(last'.slots) = 96
                  /\ \A k \in 1 .. 96 : last'.slots[k] = 15 * (k - 1)
             ELSE /\ \A k \in 1 .. Len(last'.slots) - 1 :
                         last'.slots[k] < last'.slots[k + 1]
                  /\ Elements(last'.slots) =
                         {SlotKeys[i] : i \in {j \in DOMAIN SlotKeys :
                              SlotsOf(days, last'.arg)[j] = None}}]_vars

\* C7 happens: the last call was a find_available_slots on a date whose Day
\* has taken slots, and a date without a Day is left
C7_Witness ==
    /\ last.op = "find_available_slots"
    /\ HasDay(days, last.arg)
    /\ Len(last.slots) = 94
    /\ \E d \in Dates : ~HasDay(days, d)

\* C8: add_event on a date before today raises DateLowerThanToday and creates
\* no Day, books no slot and registers no event; on today's date with a free
\* range it succeeds whatever the start and end times are.
C8_DateLowerThanToday ==
    \A text \in Texts, range \in Ranges :
        /\ \A date_ \in {d \in Dates : d < Today} :
               \A out \in {Calendar_add_event(days, events, nextId, text[1],
                               text[2], date_, range[1], range[2])} :
                   /\ out.raised = DateLowerThanToday
                   /\ out.days = days
                   /\ out.events = events
        /\ RangeFree(days, Today, range[1], range[2]) =>
               Calendar_add_event(days, events, nextId, text[1], text[2],
                                  Today, range[1], range[2]).raised = NoError

\* C8 happens: the last call was an add_event that raised DateLowerThanToday
\* while an event added on today's date is registered
C8_Witness ==
    /\ last.op = "add_event"
    /\ last.raised = DateLowerThanToday
    /\ \E x \in DOMAIN events : events[x].date_ = Today

\* an operation that raised EventNotFound and changed nothing
NotFoundNoChange(out) ==
    out.raised = EventNotFound /\ out.days = days /\ out.events = events

\* C9: add_reminder, update_event, delete_event, delete_reminder and
\* list_reminders, called with an id that is no key of Calendar.events, raise
\* EventNotFound and leave Calendar.events and the slots of every Day as
\* they were.
C9_UnknownIdRaisesEventNotFound ==
    \A event_id \in Ids \ Registered(events) :
        /\ \A reminder \in ReminderInputs :
               NotFoundNoChange(Calendar_add_reminder(days, events, event_id,
                                    reminder[1], reminder[2]))
        /\ \A text \in Texts, date_ \in Dates, range \in Ranges :
               NotFoundNoChange(Calendar_update_event(days, events, event_id,
                                    text[1], text[2], date_, range[1],
                                    range[2]))
        /\ NotFoundNoChange(Calendar_delete_event(days, events, event_id))
        /\ \A reminder_index \in Indexes :
               NotFoundNoChange(Calendar_delete_reminder(days, events,
                                    event_id, reminder_index))
        /\ NotFoundNoChange(Calendar_list_reminders(days, events, event_id))

\* C9 happens: the last call was a delete_event that raised EventNotFound for
\* an id that a slot holds
C9_Witness ==
    /\ last.op = "delete_event"
    /\ last.raised = EventNotFound
    /\ last.arg \in Booked(days)

\* C10: after add_reminder(id, t, k) on a registered event list_reminders(id)
\* is the list before with Reminder(t, k) appended; after delete_reminder(id,
\* i) with 0 <= i < length it is the list before without its element at
\* position i, the others in the same order.
C10_ReminderRoundTrip ==
    \A x \in DOMAIN events :
        \A id \in {events[x].id} :
        \A old \in {Calendar_list_reminders(days, events, id).ret} :
            /\ \A reminder \in ReminderInputs :
                   \A out \in {Calendar_add_reminder(days, events, id,
                                   reminder[1], reminder[2])} :
                       /\ out.raised = NoError
                       /\ Calendar_list_reminders(out.days, out.events,
                                                  id).ret =
                              old \o <<[date_time |-> reminder[1],
                                        type |-> reminder[2]]>>
            /\ \A i \in 0 .. Len(old) - 1 :
                   \A out \in {Calendar_delete_reminder(days, events, id, i)} :
                   \A new \in {Calendar_list_reminders(out.days, out.events,
                                                       id).ret} :
                       /\ out.raised = NoError
                       /\ Len(new) = Len(old) - 1
                       /\ \A k \in 1 .. Len(new) :
                              new[k] = IF k <= i THEN old[k] ELSE old[k + 1]

\* C10 happens: the last call was a delete_reminder that succeeded and left
\* two different reminders on the event, while another event has a reminder
C10_Witness ==
    /\ last.op = "delete_reminder"
    /\ last.raised = NoError
    /\ HasEvent(events, last.arg)
    /\ Len(EventOf(events, last.arg).reminders) = 2
    /\ EventOf(events, last.arg).reminders[1] #
           EventOf(events, last.arg).reminders[2]
    /\ \E x \in DOMAIN events :
           events[x].id # last.arg /\ events[x].reminders # <<>>

\* C11: delete_reminder on a registered event with an index below 0 or not
\* below the number of its reminders raises ReminderNotFound and leaves the
\* reminders of the event, and the whole Calendar, as they were.
C11_IndexOutOfRange ==
    \A x \in DOMAIN events :
        \A i \in {j \in Indexes : j < 0 \/ j >= Len(events[x].reminders)} :
            \A out \in {Calendar_delete_reminder(days, events, events[x].id,
                                                  i)} :
                /\ out.raised = ReminderNotFound
                /\ Calendar_list_reminders(out.days, out.events,
                                           events[x].id).ret =
                       events[x].reminders
                /\ out.events = events
                /\ out.days = days

\* C11 happens: the last call was a delete_reminder that raised
\* ReminderNotFound on an event that holds its reminders, two kinds of them
C11_Witness ==
    /\ last.op = "delete_reminder"
    /\ last.raised = ReminderNotFound
    /\ HasEvent(events, last.arg)
    /\ Len(EventOf(events, last.arg).reminders) = MaxReminders
    /\ \E k \in 1 .. MaxReminders - 1 :
           EventOf(events, last.arg).reminders[k] #
               EventOf(events, last.arg).reminders[k + 1]

\* C12: find_events(start, end) returns a mapping whose keys are exactly the
\* dates from start to end, both included, of the registered events, each
\* key once, and whose value under a date is the one-element sequence of the
\* event of that date that comes last in the order of Calendar.events.
C12_FindEvents ==
    \A start_at \in Dates, end_at \in Dates :
        \A found \in {Calendar_find_events(events, start_at, end_at)} :
            /\ {found[k].date_ : k \in DOMAIN found} =
                   {events[x].date_ : x \in DOMAIN events} \cap
                   {d \in Dates : start_at <= d /\ d <= end_at}
            /\ \A k, l \in DOMAIN found :
                   found[k].date_ = found[l].date_ => k = l
            /\ \A k \in DOMAIN found :
                   /\ Len(found[k].events) = 1
                   /\ \E x \in DOMAIN events :
                          /\ found[k].events[1] = events[x]
                          /\ events[x].date_ = found[k].date_
                          /\ \A y \in x + 1 .. Len(events) :
                                 events[y].date_ # found[k].date_

\* C12 happens: the last call was a find_events that returned the date of
\* two registered events, of which it holds the one created first, which an
\* update_event has moved to the end of the registry
C12_Witness ==
    /\ last.op = "find_events"
    /\ \E k \in DOMAIN last.found :
           \E x \in DOMAIN events :
               /\ events[x].date_ = last.found[k].date_
               /\ events[x].id > last.found[k].events[1].id

\* the slots of the range hold nothing but None and the ids in `own`
RangeHoldsOnly(slots, start_at, end_at, own) ==
    \A i \in RangeSlots(start_at, end_at) : slots[i] \in {None} \cup own

\* C13 as stated: Day.add_event raises SlotNotAvailable exactly when a slot
\* of the range holds an id other than event_id; a slot of the range that
\* holds event_id itself does not make it fail.
C13_RaisesOnlyOnAnotherId ==
    \A event_id \in Ids, range \in DayRanges :
        (Day_add_event(days[1].slots, event_id, range[1], range[2]).raised =
             SlotNotAvailable)
        <=> ~RangeHoldsOnly(days[1].slots, range[1], range[2], {event_id})

\* C13, amended: Day.add_event raises SlotNotAvailable exactly when a slot
\* of the range holds an id, event_id itself included, and raises nothing
\* otherwise.
C13_RaisesOnAnyId ==
    \A event_id \in Ids, range \in DayRanges :
        \A out \in {Day_add_event(days[1].slots, event_id, range[1],
                                   range[2])} :
            /\ out.raised \in {NoError, SlotNotAvailable}
            /\ out.raised = SlotNotAvailable
                 <=> ~RangeHoldsOnly(days[1].slots, range[1], range[2], {})

\* C13 happens: the last call was a Day.add_event that raised
\* SlotNotAvailable on a Day that held no id but the one it was given
C13_Witness ==
    /\ last.op = "Day.add_event"
    /\ last.raised = SlotNotAvailable
    /\ {last.before[i] : i \in DOMAIN last.before} = {None, last.arg}

\* C14: when Day.add_event raises SlotNotAvailable nothing is rolled back:
\* with c the earliest occupied slot of the range, every slot of the range
\* before c holds event_id afterwards, and c and every slot after it are as
\* they were before the call (and so is every slot before the range).
C14_NoRollback ==
    \A event_id \in Ids, range \in DayRanges :
        \A old \in {days[1].slots} :
        \A out \in {Day_add_event(old, event_id, range[1], range[2])} :
            out.raised = SlotNotAvailable =>
                \A booked \in {RangeSlots(range[1], range[2])} :
                \E c \in booked :
                    /\ old[c] # None
                    /\ \A j \in booked : j < c => old[j] = None
                    /\ \A i \in DOMAIN SlotKeys :
                           out.slots[i] = IF i \in booked /\ i < c
                                          THEN event_id ELSE old[i]

\* C14 happens: the last call was a Day.add_event that raised
\* SlotNotAvailable after it wrote its id into two slots that were free,
\* ahead of a slot held by another id
C14_Witness ==
    /\ last.op = "Day.add_event"
    /\ last.raised = SlotNotAvailable
    /\ \E i \in 1 .. 94 :
           /\ last.before[i] = None /\ days[1].slots[i] = last.arg
           /\ last.before[i + 1] = None /\ days[1].slots[i + 1] = last.arg
           /\ last.before[i + 2] \notin {None, last.arg}
           /\ days[1].slots[i + 2] = last.before[i + 2]

\* C15 as stated: when Day.update_event raises SlotNotAvailable, because the
\* new range meets a slot of another event, the old slots of the event have
\* been cleared and no slot of the Day holds event_id.
C15_FailedUpdateLeavesUnbooked ==
    \A event_id \in Ids, range \in DayRanges :
        \A out \in {Day_update_event(days[1].slots, event_id, range[1],
                                      range[2])} :
            out.raised = SlotNotAvailable =>
                \A i \in DOMAIN SlotKeys : out.slots[i] # event_id

\* C15, amended: when Day.update_event raises SlotNotAvailable, the new
\* range meets a slot of another event; the old slots of the event have
\* been cleared, the slots of the new range ahead of the first slot of
\* another event hold event_id, and no other slot of the Day does; the
\* slots of the other events are as they were.
C15_FailedUpdateLeavesPartBooked ==
    \A event_id \in Ids, range \in DayRanges :
        \A old \in {days[1].slots} :
        \A out \in {Day_update_event(old, event_id, range[1], range[2])} :
            out.raised = SlotNotAvailable =>
                \A booked \in {RangeSlots(range[1], range[2])} :
                \E c \in booked :
                    /\ old[c] \notin {None, event_id}
                    /\ \A j \in booked : j < c => old[j] \in {None, event_id}
                    /\ \A i \in DOMAIN SlotKeys :
                           out.slots[i] =
                               IF i \in booked /\ i < c THEN event_id
                               ELSE IF old[i] = event_id THEN None
                               ELSE old[i]

\* C15 happens: the last call was a Day.update_event that raised
\* SlotNotAvailable after it cleared a slot of the event and wrote the id
\* into a slot that was free
C15_Witness ==
    /\ last.op = "Day.update_event"
    /\ last.raised = SlotNotAvailable
    /\ \E i \in DOMAIN last.before :
           last.before[i] = last.arg /\ days[1].slots[i] = None
    /\ \E i \in DOMAIN last.before :
           last.before[i] = None /\ days[1].slots[i] = last.arg

\* C16: update_event on a registered event, with no slot of the new range on
\* the new date held by another id, succeeds, also when the new range
\* overlaps the slots the event holds; afterwards the registry has one entry
\* under the same id, with the new title, description, date and times,
\* every slot the event held is free unless it is a slot of the new range
\* on the new date, and the id is held by exactly the slots of the new
\* range on the new date.
C16_UpdateEventMoves ==
    \A x \in DOMAIN events :
    \A text \in UpdTexts, date_ \in Dates, range \in RemRanges :
        \A id \in {events[x].id} :
        \A booked \in {{date_} \X RangeSlots(range[1], range[2])} :
            RangeHoldsOnly(ValuesOn(days, date_), range[1], range[2], {id})
            => \A out \in {Calendar_update_event(days, events, id, text[1],
                                text[2], date_, range[1], range[2])} :
                   /\ out.raised = NoError
                   /\ Cardinality({y \in DOMAIN out.events :
                                       out.events[y].id = id}) = 1
                   /\ \A new \in {EventOf(out.events, id)} :
                          /\ new.title = text[1]
                          /\ new.description = text[2]
                          /\ new.date_ = date_
                          /\ new.start_at = range[1]
                          /\ new.end_at = range[2]
                   /\ HeldBy(out.days, id) = booked
                   /\ \A p \in HeldBy(days, id) \ booked :
                          SlotsOf(out.days, p[1])[p[2]] = None

\* C16 happens: the last call was an update_event that succeeded with a new
\* title on the date where the event held two slots, of which it kept one
\* and freed the other, while another registered event holds a slot
C16_Witness ==
    /\ last.op = "update_event"
    /\ last.raised = NoError
    /\ HasEvent(events, last.arg)
    /\ EventOf(events, last.arg).title = "t2"
    /\ \A slots \in {SlotsOf(days, EventOf(events, last.arg).date_)} :
           /\ \E i \in DOMAIN slots :
                  last.before[i] = last.arg /\ slots[i] = last.arg
           /\ \E i \in DOMAIN slots :
                  last.before[i] = last.arg /\ slots[i] = None
    /\ \E y \in DOMAIN events :
           events[y].id # last.arg /\ HeldBy(days, events[y].id) # {}

\* C17: when update_event raises SlotNotAvailable nothing is rolled back:
\* every slot the event held is free, or holds the id again as one of the
\* slots of the new range on the new date ahead of the first slot held by
\* another id, and no other slot holds the id; the registry has one entry
\* under the id, the replacement Event with the new title, description,
\* date and times, and no entry for the old Event.
C17_FailedUpdateNotRolledBack ==
    \A x \in DOMAIN events :
    \A text \in UpdTexts, date_ \in Dates, range \in RemRanges :
        \A id \in {events[x].id} :
        \A out \in {Calendar_update_event(days, events, id, text[1],
                         text[2], date_, range[1], range[2])} :
            out.raised = SlotNotAvailable =>
                \A old \in {ValuesOn(days, date_)} :
                \A written \in {{date_} \X
                        {i \in RangeSlots(range[1], range[2]) :
                            \A j \in RangeSlots(range[1], range[2]) :
                                j <= i => old[j] \in {None, id}}} :
                    /\ HeldBy(out.days, id) = written
                    /\ \A p \in HeldBy(days, id) \ written :
                           SlotsOf(out.days, p[1])[p[2]] = None
                    /\ Cardinality({y \in DOMAIN out.events :
                                        out.events[y].id = id}) = 1
                    /\ EventOf(out.events, id) =
                           [title |-> text[1], description |-> text[2],
                            date_ |-> date_, start_at |-> range[1],
                            end_at |-> range[2], id |-> id,
                            reminders |-> <<>>]

\* C17 happens: the last call was an update_event that raised
\* SlotNotAvailable after it wrote the id into a free slot of the new date;
\* the registry holds the event with the new title and a range of which
\* another id holds a slot
C17_Witness ==
    /\ last.op = "update_event"
    /\ last.raised = SlotNotAvailable
    /\ HasEvent(events, last.arg)
    /\ \A event \in {EventOf(events, last.arg)} :
           /\ event.title = "t2"
           /\ \A slots \in {SlotsOf(days, event.date_)} :
                  /\ \E i \in RangeSlots(event.start_at, event.end_at) :
                         last.before[i] = None /\ slots[i] = last.arg
                  /\ \E i \in RangeSlots(event.start_at, event.end_at) :
                         slots[i] \notin {None, last.arg}

\* both add_event calls have returned, both events are registered, and the
\* two events have the same date and ranges that share a slot
BothBooked ==
    /\ \A t \in Threads :
           /\ calls.call[t].pc = "returned"
           /\ HasEvent(events, calls.call[t].id)
    /\ calls.call[1].date_ = calls.call[2].date_
    /\ RangeSlots(calls.call[1].start_at, calls.call[1].end_at) \cap
       RangeSlots(calls.call[2].start_at, calls.call[2].end_at) # {}

\* C18: when each of two add_event calls runs atomically, no state is
\* reached in which both have returned and both events are registered with
\* the same date and ranges that share a slot; when the tests and writes
\* of the slots of the two calls interleave, such a state is reached
\* (C18_Witness).
C18_AtomicNeverBooksBoth == calls.atomic => ~BothBooked

\* C18 happens: the steps of the two calls interleave, both calls have
\* returned and both events are registered with ranges that share a slot;
\* both calls booked the one Day that Calendar.days holds, so that the slot
\* was found free by both tests before either write, and it holds the id of
\* one of them
C18_Witness ==
    /\ ~calls.atomic
    /\ BothBooked
    /\ calls.call[1].day = calls.call[2].day
    /\ calls.at[DayIndex(days, calls.call[1].date_)] = calls.call[1].day
    /\ Booked(days) \subseteq Registered(events)

\* C19: update_event on a registered event returns or raises
\* SlotNotAvailable, and list_reminders of the event is then the empty
\* list, whatever reminders the event had; the reminders of every other
\* event are as they were.
C19_UpdateDropsReminders ==
    \A x \in DOMAIN events :
    \A text \in Texts, date_ \in Dates, range \in Ranges :
        \A id \in {events[x].id} :
        \A out \in {Calendar_update_event(days, events, id, text[1],
                         text[2], date_, range[1], range[2])} :
            /\ out.raised \in {NoError, SlotNotAvailable}
            /\ \A listed \in {Calendar_list_reminders(out.days, out.events,
                                                        id)} :
                   listed.raised = NoError /\ listed.ret = <<>>
            /\ \A y \in DOMAIN events :
                   events[y].id # id =>
                       \A listed \in {Calendar_list_reminders(
                                          out.days, out.events, events[y].id)} :
                           /\ listed.raised = NoError
                           /\ listed.ret = events[y].reminders

\* C19 happens: the last call was an update_event that raised
\* SlotNotAvailable for an event that had two reminders and has none now,
\* while another event has its reminders
C19_Witness ==
    /\ last.op = "update_event"
    /\ last.raised = SlotNotAvailable
    /\ Len(last.before) = 2
    /\ HasEvent(events, last.arg)
    /\ EventOf(events, last.arg).reminders = <<>>
    /\ \E y \in DOMAIN events :
           events[y].id # last.arg /\ events[y].reminders # <<>>

\* the slots `held` of the k-th Day hold in ds the values they hold in days
SlotsKept(ds, k, held) ==
    /\ k \in DOMAIN ds
    /\ ds[k].date_ = days[k].date_
    /\ \A i \in held : ds[k].slots[i] = days[k].slots[i]

\* C20: a slot that holds an id that is no key of Calendar.events holds the
\* same id after every call, the id is still no key, and then delete_event
\* and update_event on the id raise EventNotFound, find_available_slots on
\* the date of the slot does not return it, no add_event, whatever its
\* date and range, changes the slot or makes the id a key, and add_reminder,
\* delete_reminder and list_reminders change no Day and no key.
C20_OrphanSlotsStay ==
    [][\A orphans \in {Booked(days) \ Registered(events)} :
       orphans # {} =>
       \A added \in {{Calendar_add_event(days', events', nextId', text[1],
                           text[2], date_, range[1], range[2]) :
                          text \in Texts, date_ \in Dates, range \in Ranges}} :
           /\ \A id \in OrphanIds :
                  /\ \A reminder \in ReminderInputs :
                         \A out \in {Calendar_add_reminder(days', events',
                                         id, reminder[1], reminder[2])} :
                             /\ out.days = days'
                             /\ Registered(out.events) = Registered(events')
                  /\ \A reminder_index \in Indexes :
                         \A out \in {Calendar_delete_reminder(days', events',
                                         id, reminder_index)} :
                             /\ out.days = days'
                             /\ Registered(out.events) = Registered(events')
                  /\ \A out \in {Calendar_list_reminders(days', events',
                                                          id)} :
                         out.days = days' /\ out.events = events'
           /\ \A id \in orphans :
                  /\ id \notin Registered(events')
                  /\ \A out \in added : id \notin Registered(out.events)
                  /\ Calendar_delete_event(days', events', id).raised =
                         EventNotFound
                  /\ \A text \in Texts, date_ \in Dates, range \in Ranges :
                         Calendar_update_event(days', events', id, text[1],
                                               text[2], date_, range[1],
                                               range[2]).raised =
                             EventNotFound
           /\ \A k \in DOMAIN days :
                  \A held \in {{i \in DOMAIN SlotKeys :
                                    days[k].slots[i] \in orphans}} :
                      held # {} =>
                          /\ SlotsKept(days', k, held)
                          /\ \A out \in added : SlotsKept(out.days, k, held)
                          /\ \A free \in {Elements(
                                     Calendar_find_available_slots(
                                         days', days[k].date_))} :
                                 \A i \in held : SlotKeys[i] \notin free]_vars

\* C20 happens: the last call was an add_event that booked its slot and
\* registered its event while a slot holds the id of an earlier add_event
\* that failed, an id that is no key of Calendar.events
C20_Witness ==
    /\ last.op = "add_event"
    /\ last.raised = NoError
    /\ HasEvent(events, last.ret)
    /\ last.ret \in Booked(days)
    /\ \E id \in Booked(days) \ Registered(events) : id < last.ret

====
